---- MODULE Spec2Model ----
(***************************************************************************)
(* AutoReviewBot: one run of run(), in its two variants.                   *)
(*   "bot"    : src/bot.js            (standalone script, commit status)   *)
(*   "action" : src/unnamed/part_001  (GitHub Action, check run)           *)
(* Text is a sequence of one-character strings.  A regular expression is   *)
(* modelled by its source (a sequence of tokens) and its flags (a sequence *)
(* of flag characters); the patterns drawn are literals, so a compiled     *)
(* pattern is the character sequence it matches.                           *)
(***************************************************************************)
EXTENDS Integers, Sequences, FiniteSets, TLC

\* ------------------------------------------------------------------ bounds
MaxFiles == 2
MaxRules == 2
MaxChunks == 3
MaxChanges == 1

\* ------------------------------------------------------------------ text helpers
NL == "\n"

RECURSIVE JoinLines(_)
\* Array.prototype.join('\n'): the elements separated by one newline
JoinLines(lines) ==
  IF Len(lines) = 0 THEN << >>
  ELSE IF Len(lines) = 1 THEN lines[1]
  ELSE lines[1] \o <<NL>> \o JoinLines(Tail(lines))

RECURSIVE Flatten(_)
\* the flattening half of Array.prototype.flatMap
Flatten(seqs) ==
  IF Len(seqs) = 0 THEN << >> ELSE seqs[1] \o Flatten(Tail(seqs))

\* String.prototype.substring(0, n)
Substring0(s, n) == SubSeq(s, 1, n)

RECURSIVE SplitNL(_)
\* String.prototype.split('\n'): the pieces between newlines ('' splits to [''])
SplitNL(s) ==
  IF \A i \in 1..Len(s) : s[i] # NL THEN <<s>>
  ELSE LET k == CHOOSE i \in 1..Len(s) : s[i] = NL /\ \A j \in 1..(i-1) : s[j] # NL
       IN  <<SubSeq(s, 1, k-1)>> \o SplitNL(SubSeq(s, k+1, Len(s)))

\* String.prototype.endsWith
EndsWith(s, suffix) ==
  /\ Len(s) >= Len(suffix)
  /\ SubSeq(s, Len(s) - Len(suffix) + 1, Len(s)) = suffix

JavaExt == <<".", "j", "a", "v", "a">>

\* ------------------------------------------------------------------ objects
\* A JavaScript object is a record; a property the object lacks is a field the
\* record lacks, and reading it gives undefined.
Has(obj, f) == f \in DOMAIN obj

\* `${x}` of a string property, "undefined" when the property is missing
Interp(obj, f) == IF Has(obj, f) THEN obj[f] ELSE "undefined"

\* ------------------------------------------------------------------ RegExp
\* Pattern sources are sequences of tokens: "a" matches a, "\\+" matches +,
\* "(" opens a group that is never closed (a SyntaxError).
TokenChar(tok) == IF tok = "\\+" THEN "+" ELSE tok

PatternCompiles(src) == \A i \in 1..Len(src) : src[i] # "("

Literal(src) == [i \in 1..Len(src) |-> TokenChar(src[i])]

FlagChars == {"d", "g", "i", "m", "s", "u", "v", "y"}

FlagsValid(fl) ==
  /\ \A i \in 1..Len(fl) : fl[i] \in FlagChars
  /\ \A i, j \in 1..Len(fl) : i # j => fl[i] # fl[j]
  /\ ~ (\E i, j \in 1..Len(fl) : fl[i] = "u" /\ fl[j] = "v")

HasFlag(fl, c) == \E i \in 1..Len(fl) : fl[i] = c

\* rule.pattern as new RegExp reads it: undefined compiles to the empty pattern
PatternOf(rule) == IF Has(rule, "pattern") THEN rule.pattern ELSE << >>

\* rule.flags || 'gm'
FlagsOf(rule) ==
  IF Has(rule, "flags") /\ Len(rule.flags) > 0 THEN rule.flags ELSE <<"g", "m">>

\* new RegExp(rule.pattern, rule.flags || 'gm') does not throw
Compiles(rule) == PatternCompiles(PatternOf(rule)) /\ FlagsValid(FlagsOf(rule))

NewRegExp(rule) ==
  [lit       |-> Literal(PatternOf(rule)),
   global    |-> HasFlag(FlagsOf(rule), "g"),
   sticky    |-> HasFlag(FlagsOf(rule), "y"),
   lastIndex |-> 0]

\* the pattern matches s at the 0-based offset i
MatchAt(lit, s, i) ==
  /\ i + Len(lit) <= Len(s)
  /\ SubSeq(s, i + 1, i + Len(lit)) = lit

\* exec found nothing
NoMatch == -1

\* RegExpBuiltinExec: the search starts at lastIndex when the regex is global or
\* sticky and at 0 otherwise; a sticky regex tries that one offset only.  The
\* result is the match's index (or NoMatch) and the regex's new lastIndex.
RegExpExec(re, s) ==
  LET start == IF re.global \/ re.sticky THEN re.lastIndex ELSE 0
      cands == IF re.sticky THEN {start} ELSE start..Len(s)
      hits  == {i \in cands : i <= Len(s) /\ MatchAt(re.lit, s, i)}
      idx   == IF hits = {} THEN NoMatch
               ELSE CHOOSE i \in hits : \A j \in hits : i <= j
  IN  [index     |-> idx,
       lastIndex |-> IF ~ (re.global \/ re.sticky) THEN re.lastIndex
                     ELSE IF idx = NoMatch THEN 0
                     ELSE idx + Len(re.lit)]

\* ------------------------------------------------------------------ inputs
\* parse-diff keeps the diff marker as the first character of change.content
Changes ==
  { [type |-> "add",    content |-> <<"+", "a">>],
    [type |-> "normal", content |-> <<" ", "a">>],
    [type |-> "del",    content |-> <<"-", "a">>] }

SeqsUpTo(S, lo, hi) == UNION { [1..n -> S] : n \in lo..hi }

Chunks == { [changes |-> cs] : cs \in SeqsUpTo(Changes, 1, MaxChanges) }

Paths == { <<"A", ".", "j", "a", "v", "a">>, <<"A", ".", "t", "x", "t">> }

Files ==
  LET cl == SeqsUpTo(Chunks, 0, MaxChunks)
  IN  { [to |-> p, chunks |-> c] : p \in Paths, c \in cl }
      \cup { [chunks |-> c] : c \in cl }

RuleCatalog ==
  { [id |-> "CRIT", pattern |-> <<"a">>, message |-> "m", critical |-> TRUE,
     fix |-> "f"],
    [id |-> "ADDED", pattern |-> <<"\\+">>, message |-> "m", critical |-> FALSE],
    [id |-> "BAD", pattern |-> <<"(">>, message |-> "m", critical |-> TRUE],
    [id |-> "EMPTY", pattern |-> << >>, message |-> "m"],
    [id |-> "NOG", pattern |-> <<"a">>, message |-> "m", flags |-> <<"m">>],
    [id |-> "NOMSG", pattern |-> <<" ", "a">>],
    [id |-> "NOPAT", message |-> "m", critical |-> TRUE],
    [id |-> "BADFLAGS", pattern |-> <<"a">>, message |-> "m", flags |-> <<"x">>] }

RuleSets == SeqsUpTo(RuleCatalog, 0, MaxRules)

\* the loop of a rule that never stops matching is cut once the file has more
\* violations than the terminating rules together can produce (one per line each)
MaxFileViolations == MaxRules * MaxChunks * MaxChanges + 1

\* ------------------------------------------------------------------ state
VARIABLES
  variant,          \* "bot" (bot.js) or "action" (the GitHub Action variant)
  pc,               \* the position of run()
  outcome,          \* "running", "completed", "exit0", "exit1", "failed" (setFailed)
  failure,          \* the fatal condition that ended the run, "none" if none
  rules,            \* the loaded rule set
  nFiles,           \* diffFiles.length
  fileNo,           \* number of diffFiles entries the forEach has visited
  file,             \* the entry being analysed
  fileContent,      \* the text the rules run against
  fileViolations,
  ruleNo,           \* number of rules the inner forEach has finished for this file
  regex,            \* the compiled RegExp of the rule in progress
  comments,
  hasCritical,
  totalViolations,
  review,           \* the pulls.createReview call, and whether prAuthor was
                    \* authenticatedUser.login when its event was chosen
  status,           \* the createCommitStatus / checks.create call
  conflictCheck,    \* the Action's "Skipped due to merge conflicts" check was created
  violations        \* history: (file, rule, match index) of every comment pushed

vars == <<variant, pc, outcome, failure, rules, nFiles, fileNo, file, fileContent,
          fileViolations, ruleNo, regex, comments, hasCritical, totalViolations,
          review, status, conflictCheck, violations>>

analysis == <<nFiles, fileNo, file, fileContent, fileViolations, ruleNo, regex,
              comments, hasCritical, totalViolations, violations>>

posting == <<review, status, conflictCheck>>

NoFile == [chunks |-> << >>]

NoRegExp == [lit |-> << >>, global |-> FALSE, sticky |-> FALSE, lastIndex |-> 0]

NoCall == [calls |-> 0, value |-> "none", result |-> "none"]

Init ==
  /\ variant \in {"bot", "action"}
  /\ pc = "start"
  /\ outcome = "running"
  /\ failure = "none"
  /\ rules = << >>
  /\ nFiles = 0
  /\ fileNo = 0
  /\ file = NoFile
  /\ fileContent = << >>
  /\ fileViolations = 0
  /\ ruleNo = 0
  /\ regex = NoRegExp
  /\ comments = << >>
  /\ hasCritical = FALSE
  /\ totalViolations = 0
  /\ review = NoCall
  /\ status = NoCall
  /\ conflictCheck = FALSE
  /\ violations = << >>

\* process.exit(1) in bot.js, core.setFailed(...) and return in the Action
Fatal(why) ==
  /\ pc' = "end"
  /\ outcome' = IF variant = "bot" THEN "exit1" ELSE "failed"
  /\ failure' = why

\* bot.js: token, authentication, token scope, open PRs
StartBot ==
  /\ pc = "start" /\ variant = "bot"
  /\ \/ \E why \in {"token", "auth", "scope", "uncaught"} : Fatal(why)
     \/ /\ pc' = "end" /\ outcome' = "exit0" /\ failure' = "noprs"
     \/ /\ pc' = "load" /\ UNCHANGED <<outcome, failure>>
  /\ UNCHANGED <<variant, rules, analysis, posting>>

\* Action: token, event type, pull request payload, merge conflicts
StartAction ==
  /\ pc = "start" /\ variant = "action"
  /\ \/ /\ \E why \in {"token", "event", "nopr"} : Fatal(why)
        /\ UNCHANGED conflictCheck
     \/ /\ pc' = "end" /\ outcome' = "completed" /\ conflictCheck' = TRUE
        /\ UNCHANGED failure
     \/ /\ Fatal("uncaught") /\ UNCHANGED conflictCheck
     \/ /\ pc' = "load" /\ UNCHANGED <<outcome, failure, conflictCheck>>
  /\ UNCHANGED <<variant, rules, analysis, review, status>>

\* LoadRules whose catch block logs the error and lets the run go on
LoadRulesLenient ==
  /\ pc = "load"
  /\ \/ /\ failure' = "rules" /\ rules' = << >> /\ pc' = "fetch"
        /\ UNCHANGED outcome
     \/ /\ \E rs \in RuleSets : rules' = rs
        /\ pc' = "fetch"
        /\ UNCHANGED <<outcome, failure>>
  /\ UNCHANGED <<variant, analysis, posting>>

\* rules = yaml.load(fs.readFileSync('rules.yaml')); rules.length
LoadRules ==
  /\ pc = "load"
  /\ \/ Fatal("rules") /\ UNCHANGED rules
     \/ /\ \E rs \in RuleSets : rules' = rs
        /\ pc' = "fetch"
        /\ UNCHANGED <<outcome, failure>>
  /\ UNCHANGED <<variant, analysis, posting>>

\* the diff is fetched and parsed, the accumulators are initialised.  The Action
\* takes parseDiff as a named export of parse-diff: where the package exports the
\* function itself the name is undefined, the call throws and the outer catch
\* ends the run; both outcomes are kept.
FetchDiff ==
  /\ pc = "fetch"
  /\ \/ Fatal("diff") /\ UNCHANGED analysis
     \/ variant = "action" /\ Fatal("uncaught") /\ UNCHANGED analysis
     \/ /\ \E n \in 0..MaxFiles : nFiles' = n
        /\ comments' = << >>
        /\ hasCritical' = FALSE
        /\ totalViolations' = 0
        /\ pc' = "file"
        /\ UNCHANGED <<outcome, failure, fileNo, file, fileContent, fileViolations,
                       ruleNo, regex, violations>>
  /\ UNCHANGED <<variant, rules, posting>>

\* file.chunks.flatMap(chunk => chunk.changes.filter(c => c.type !== 'del')
\*                                            .map(c => c.content))
Kept(changes) == SelectSeq(changes, LAMBDA c : c.type # "del")

FileLines(f) ==
  Flatten([i \in 1..Len(f.chunks) |->
            [j \in 1..Len(Kept(f.chunks[i].changes)) |->
               Kept(f.chunks[i].changes)[j].content]])

\* Skipped without the extension test
SkippedOnlyMissing(f) == ~ Has(f, "to") \/ Len(f.to) = 0

\* !file.to || !file.to.endsWith('.java')
Skipped(f) == ~ Has(f, "to") \/ Len(f.to) = 0 \/ ~ EndsWith(f.to, JavaExt)

\* diffFiles.forEach: the next entry, or the end of the analysis
NextFile ==
  /\ pc = "file"
  /\ \/ /\ fileNo = nFiles
        \* the callbacks' locals are gone once forEach has returned
        /\ file' = NoFile
        /\ fileContent' = << >>
        /\ fileViolations' = 0
        /\ ruleNo' = 0
        /\ regex' = NoRegExp
        /\ pc' = "review"
        /\ UNCHANGED fileNo
     \/ /\ fileNo < nFiles
        /\ \E f \in Files :
             /\ file' = f
             /\ fileNo' = fileNo + 1
             /\ IF Skipped(f)
                  THEN /\ pc' = "file"
                       /\ UNCHANGED <<fileContent, fileViolations, ruleNo>>
                  ELSE /\ fileContent' = JoinLines(FileLines(f))
                       /\ fileViolations' = 0
                       /\ ruleNo' = 0
                       /\ pc' = "rule"
        /\ UNCHANGED regex
  /\ UNCHANGED <<variant, outcome, failure, rules, nFiles, comments,
                 hasCritical, totalViolations, violations, posting>>

\* LineOf with the count of the pieces before the last one (a 0-based line)
LineOfZeroBased(content, index) == Len(SplitNL(Substring0(content, index))) - 1

\* contentBeforeMatch = fileContent.substring(0, match.index);
\* line = contentBeforeMatch.split('\n').length
LineOf(content, index) == Len(SplitNL(Substring0(content, index)))

\* the comment body is built from rule.id, rule.message and, when truthy, rule.fix
Body(rule) ==
  [id      |-> Interp(rule, "id"),
   message |-> Interp(rule, "message"),
   fix     |-> IF Has(rule, "fix") THEN rule.fix ELSE ""]

CommentFor(f, rule, index) ==
  [path |-> f.to, line |-> LineOf(fileContent, index), body |-> Body(rule)]

\* rule.critical is truthy
Critical(rule) == Has(rule, "critical") /\ rule.critical = TRUE

\* MarkCritical as the assignment hasCritical = rule.critical (the last match wins)
MarkCriticalOverwrite(hc, rule) == Critical(rule)

\* if (rule.critical) hasCritical = true
MarkCritical(hc, rule) == IF Critical(rule) THEN TRUE ELSE hc

\* NextRule with the try/catch around the whole forEach: a pattern that does not
\* compile ends the rules of this file
NextRuleAbortFile ==
  /\ pc = "rule"
  /\ \/ /\ ruleNo = Len(rules)
        /\ pc' = "file"
        /\ UNCHANGED <<ruleNo, regex>>
     \/ /\ ruleNo < Len(rules)
        /\ LET rule == rules[ruleNo + 1] IN
           IF ~ Compiles(rule)
             THEN /\ ruleNo' = Len(rules)
                  /\ UNCHANGED <<pc, regex>>
             ELSE /\ regex' = NewRegExp(rule)
                  /\ pc' = "exec"
                  /\ UNCHANGED ruleNo
  /\ UNCHANGED <<variant, outcome, failure, rules, nFiles, fileNo, file,
                 fileContent, fileViolations, comments, hasCritical,
                 totalViolations, violations, posting>>

\* rules.forEach: the next rule is compiled, or the file is finished
NextRule ==
  /\ pc = "rule"
  /\ \/ /\ ruleNo = Len(rules)
        /\ pc' = "file"
        /\ UNCHANGED <<ruleNo, regex>>
     \/ /\ ruleNo < Len(rules)
        /\ LET rule == rules[ruleNo + 1] IN
           IF ~ Compiles(rule)
             \* SyntaxError, caught and logged
             THEN /\ ruleNo' = ruleNo + 1
                  /\ UNCHANGED <<pc, regex>>
             ELSE /\ regex' = NewRegExp(rule)
                  /\ pc' = "exec"
                  /\ UNCHANGED ruleNo
  /\ UNCHANGED <<variant, outcome, failure, rules, nFiles, fileNo, file,
                 fileContent, fileViolations, comments, hasCritical,
                 totalViolations, violations, posting>>

\* one evaluation of the while condition, and the loop body when it matched
Exec ==
  /\ pc = "exec"
  /\ LET rule == rules[ruleNo + 1]
         m    == RegExpExec(regex, fileContent)
     IN  /\ regex' = [regex EXCEPT !.lastIndex = m.lastIndex]
         /\ IF m.index = NoMatch
              THEN /\ ruleNo' = ruleNo + 1
                   /\ pc' = "rule"
                   /\ UNCHANGED <<comments, fileViolations, totalViolations,
                                  hasCritical, violations>>
              ELSE /\ fileViolations < MaxFileViolations
                   /\ comments' = Append(comments, CommentFor(file, rule, m.index))
                   /\ fileViolations' = fileViolations + 1
                   /\ totalViolations' = totalViolations + 1
                   /\ hasCritical' = MarkCritical(hasCritical, rule)
                   /\ violations' = Append(violations,
                        [file |-> fileNo, rule |-> ruleNo + 1, index |-> m.index])
                   /\ UNCHANGED <<ruleNo, pc>>
  /\ UNCHANGED <<variant, outcome, failure, rules, nFiles, fileNo, file,
                 fileContent, posting>>

\* ReviewEvent without the comparison of the PR author with the authenticated user
ReviewEventAnyAuthor(v, hc, selfAuthored) ==
  IF hc THEN "REQUEST_CHANGES" ELSE "COMMENT"

\* the review event: bot.js asks for changes only on somebody else's PR
ReviewEvent(v, hc, selfAuthored) ==
  IF v = "bot"
    THEN IF hc /\ ~ selfAuthored THEN "REQUEST_CHANGES" ELSE "COMMENT"
    ELSE IF hc THEN "REQUEST_CHANGES" ELSE "COMMENT"

\* CreateReview without its try/catch: a failed call reaches the outer catch
CreateReviewFatal ==
  /\ pc = "review"
  /\ IF Len(comments) > 0
       THEN \E selfAuthored \in BOOLEAN, res \in {"ok", "threw"} :
              /\ review' = [calls  |-> review.calls + 1,
                            value  |-> ReviewEvent(variant, hasCritical, selfAuthored),
                            result |-> res,
                            selfAuthored |-> selfAuthored]
              /\ IF res = "threw"
                   THEN Fatal("uncaught")
                   ELSE pc' = "status" /\ UNCHANGED <<outcome, failure>>
       ELSE pc' = "status" /\ UNCHANGED <<review, outcome, failure>>
  /\ UNCHANGED <<variant, rules, analysis, status, conflictCheck>>

\* if (comments.length > 0) { try { createReview } catch { log } }
CreateReview ==
  /\ pc = "review"
  /\ IF Len(comments) > 0
       THEN \E selfAuthored \in BOOLEAN, res \in {"ok", "threw"} :
              review' = [calls  |-> review.calls + 1,
                         value  |-> ReviewEvent(variant, hasCritical, selfAuthored),
                         result |-> res,
                         selfAuthored |-> selfAuthored]
       ELSE UNCHANGED review
  /\ pc' = "status"
  /\ UNCHANGED <<variant, outcome, failure, rules, analysis, status, conflictCheck>>

\* hasCritical ? 'failure' : totalViolations > 0 ? 'pending' | 'neutral' : 'success'
StatusState(v, hc, total) ==
  IF hc THEN "failure"
  ELSE IF total > 0 THEN (IF v = "bot" THEN "pending" ELSE "neutral")
  ELSE "success"

\* try { createCommitStatus | checks.create } catch { log | setFailed }
CreateStatus ==
  /\ pc = "status"
  /\ \E res \in {"ok", "threw"} :
       /\ status' = [calls  |-> status.calls + 1,
                     value  |-> StatusState(variant, hasCritical, totalViolations),
                     result |-> res]
       /\ IF res = "threw" /\ variant = "action"
            THEN outcome' = "failed" /\ failure' = "check"
            ELSE outcome' = "completed" /\ UNCHANGED failure
  /\ pc' = "end"
  /\ UNCHANGED <<variant, rules, analysis, review, conflictCheck>>

Next ==
  \/ StartBot
  \/ StartAction
  \/ LoadRules
  \/ FetchDiff
  \/ NextFile
  \/ NextRule
  \/ Exec
  \/ CreateReview
  \/ CreateStatus

Spec == Init /\ [][Next]_vars

\* ================================================================== properties
\* Reference definitions, written from the statements and not from the code.

\* the contents of the added lines of a file's hunks, in diff order
AddedLines(f) ==
  Flatten([i \in 1..Len(f.chunks) |->
            LET cs == f.chunks[i].changes
                ix == {j \in 1..Len(cs) : cs[j].type = "add"}
            IN  [k \in 1..Cardinality(ix) |->
                   cs[CHOOSE j \in ix : Cardinality({h \in ix : h <= j}) = k].content]])

\* the literal occurs somewhere in the text
OccursIn(lit, text) == \E i \in 0..Len(text) : MatchAt(lit, text, i)

\* number of newline characters strictly before the 0-based offset
NewlinesBefore(text, offset) == Cardinality({i \in 1..offset : text[i] = NL})

RECURSIVE ScanFrom(_, _, _)
\* the start offsets of the non-overlapping matches, left to right, each search
\* starting after the previous match's end (one character on after an empty match)
ScanFrom(lit, text, from) ==
  LET hits == {i \in from..Len(text) : MatchAt(lit, text, i)}
  IN  IF hits = {} THEN << >>
      ELSE LET i == CHOOSE h \in hits : \A j \in hits : h <= j
           IN  <<i>> \o ScanFrom(lit, text, i + (IF Len(lit) = 0 THEN 1 ELSE Len(lit)))

Positions(rule, text) == ScanFrom(Literal(PatternOf(rule)), text, 0)

\* indices of the recorded violations of file number fn (and of its rule number rn)
OfFile(fn) == {i \in 1..Len(violations) : violations[i].file = fn}
OfPair(fn, rn) == {i \in OfFile(fn) : violations[i].rule = rn}

\* a file is being analysed
InFile == pc \in {"rule", "exec"}

\* (C1) Added-line-only matching: a rule produces a violation for the file being
\* analysed only if its pattern matches text of the file's added lines; a pattern
\* that occurs only in removed or context lines produces none.
AddedLineOnly ==
  InFile =>
    \A i \in OfFile(fileNo) :
      OccursIn(Literal(PatternOf(rules[violations[i].rule])),
               JoinLines(AddedLines(file)))

\* number of lines the file's content is built from
Retained(f) == Len(FileLines(f))

\* the line-offset law for the violations of the file being analysed, with an
\* upper limit on the line
LineLaw(limit) ==
  InFile =>
    \A i \in OfFile(fileNo) :
      /\ comments[i].line = NewlinesBefore(fileContent, violations[i].index) + 1
      /\ comments[i].line >= 1
      /\ comments[i].line <= limit

GlobalMatchCount ==
  InFile =>
    \A rn \in 1..Len(rules) :
      Compiles(rules[rn]) =>
        LET n == Len(Positions(rules[rn], fileContent)) IN
          /\ Cardinality(OfPair(fileNo, rn)) <= n
          /\ rn <= ruleNo => Cardinality(OfPair(fileNo, rn)) = n
          /\ \A i, j \in OfPair(fileNo, rn) :
               i # j => violations[i].index # violations[j].index

\* number of violations of critical (k) and of non-critical (m) rules
CriticalCount == Cardinality({i \in 1..Len(violations) : Critical(rules[violations[i].rule])})
NonCriticalCount == Len(violations) - CriticalCount

\* the state the verdict is published as
PublishedAs(v, k, m) ==
  CASE k > 0            -> "failure"
    [] k = 0 /\ m > 0   -> (CASE v = "bot" -> "pending" [] v = "action" -> "neutral")
    [] k = 0 /\ m = 0   -> "success"

\* (C4) Aggregation correctness: with k violations of critical and m of
\* non-critical rules, totalViolations = k + m = number of comments, hasCritical
\* is k > 0, and a published status is failure iff k > 0, else the variant's
\* non-blocking state iff k + m > 0, else success; only the counts matter, not
\* the order of the violations.
AggregationCorrect ==
  /\ totalViolations = CriticalCount + NonCriticalCount
  /\ totalViolations = Len(comments)
  /\ hasCritical = (CriticalCount > 0)
  /\ status.calls > 0 => status.value = PublishedAs(variant, CriticalCount, NonCriticalCount)

\* a critical rule matched before a non-critical one did, and the status went out
MixedVerdictPublished ==
  /\ pc = "end" /\ status.calls = 1 /\ status.value = "failure"
  /\ \E i, j \in 1..Len(violations) :
       /\ i < j
       /\ Critical(rules[violations[i].rule])
       /\ ~ Critical(rules[violations[j].rule])

\* a rule entry lacks one of the required fields
Incomplete(rule) == ~ (Has(rule, "id") /\ Has(rule, "pattern") /\ Has(rule, "message"))

\* (C5) Rule-set validation is fatal: a rule set with an entry that lacks id,
\* pattern or message is never in use; the run has ended as failed on loading it,
\* before the diff is fetched, with nothing matched and nothing posted.
ValidationFatal ==
  (\E rn \in 1..Len(rules) : Incomplete(rules[rn])) =>
    /\ pc = "end" /\ failure = "rules"
    /\ outcome \in {"exit1", "failed"}
    /\ comments = << >> /\ review.calls = 0 /\ status.calls = 0

\* the comments the rules rs produce on the content of file f, in rule order and
\* then in match order
RECURSIVE ExpectedComments(_, _, _)
ExpectedComments(f, text, rs) ==
  IF Len(rs) = 0 THEN << >>
  ELSE LET ps == Positions(rs[1], text)
       IN  [k \in 1..Len(ps) |->
              [path |-> f.to, line |-> NewlinesBefore(text, ps[k]) + 1,
               body |-> Body(rs[1])]]
           \o ExpectedComments(f, text, Tail(rs))

\* the comments pushed for the file being analysed
CurrentComments ==
  SubSeq(comments, Len(comments) - Cardinality(OfFile(fileNo)) + 1, Len(comments))

\* (C6) Malformed rule isolation: a rule whose pattern does not compile produces
\* no violation and does not end the run; between two rules of any file, the
\* comments of that file are exactly those of the finished rules that compile, as
\* if the others were absent.
MalformedRuleIsolation ==
  /\ \A i \in 1..Len(violations) : Compiles(rules[violations[i].rule])
  /\ pc \in {"file", "rule", "exec", "review", "status"} =>
       outcome = "running" /\ failure = "none"
  /\ pc = "rule" =>
       CurrentComments =
         ExpectedComments(file, fileContent,
                          SelectSeq(SubSeq(rules, 1, ruleNo), Compiles))

\* in the second file, the rule after one that does not compile has reported its
\* matches, as it did in the first file
ValidRuleAfterMalformed ==
  /\ pc = "rule" /\ fileNo = 2 /\ ruleNo = 2
  /\ ~ Compiles(rules[1])
  /\ OfPair(1, 2) # {} /\ OfPair(2, 2) # {}

\* (C7) No verdict on fatal failure: when loading the rules or fetching the diff
\* has failed, the run has ended with exit code 1 (bot.js) or setFailed (Action),
\* and no review, status or check call was made; a status or check is out only
\* in runs where neither failed.
NoVerdictOnFatal ==
  /\ failure \in {"rules", "diff"} =>
       /\ pc = "end"
       /\ outcome = (IF variant = "bot" THEN "exit1" ELSE "failed")
       /\ review.calls = 0 /\ status.calls = 0 /\ ~ conflictCheck
  /\ status.calls > 0 \/ review.calls > 0 =>
       /\ failure \in {"none", "check"}
       /\ pc \in {"status", "end"}

\* the rules were loaded and the diff fetch failed
DiffFetchFailed == pc = "end" /\ failure = "diff" /\ Len(rules) > 0

\* the run went through the analysis to its end
RanToEnd == pc = "end" /\ failure \in {"none", "check"} /\ ~ conflictCheck

\* (C8) Independence of posting steps: a run that completes its analysis makes
\* the status (or check) call exactly once, after the review step, whether the
\* review call succeeded, threw or was skipped, and the state it publishes is
\* determined by hasCritical and totalViolations alone.
StatusIndependent ==
  /\ pc \in {"review", "status"} => status.calls = 0
  /\ pc = "end" /\ (RanToEnd \/ review.calls > 0) =>
       /\ status.calls = 1
       /\ review.result \in {"none", "ok", "threw"}
       /\ review.calls = (IF Len(comments) > 0 THEN 1 ELSE 0)
       /\ status.value =
            (CASE hasCritical -> "failure"
               [] ~ hasCritical /\ totalViolations > 0 ->
                    (CASE variant = "bot" -> "pending" [] variant = "action" -> "neutral")
               [] ~ hasCritical /\ totalViolations = 0 -> "success")

\* the review call threw and the status call was made all the same
StatusAfterFailedReview ==
  pc = "end" /\ review.result = "threw" /\ status.calls = 1

\* the entry has no target path or one that does not end in ".java"
NotJava(f) ==
  \/ ~ Has(f, "to")
  \/ Len(f.to) < 5
  \/ <<f.to[Len(f.to) - 4], f.to[Len(f.to) - 3], f.to[Len(f.to) - 2],
       f.to[Len(f.to) - 1], f.to[Len(f.to)]>> # <<".", "j", "a", "v", "a">>

\* (C9) Extension filter: every comment's path ends in ".java"; a file entry
\* without a target path or with another extension has no violation, whatever
\* its content and the rules, and the totals count the recorded violations only.
ExtensionFilter ==
  /\ \A i \in 1..Len(comments) : ~ NotJava([to |-> comments[i].path])
  /\ pc = "file" /\ fileNo > 0 /\ NotJava(file) => OfFile(fileNo) = {}
  /\ totalViolations = Len(violations)
  /\ hasCritical => \E i \in 1..Len(violations) : Critical(rules[violations[i].rule])

\* a .txt entry with an added line was passed over by rules that matched the
\* same line in the .java entry before it
TextFileSkipped ==
  /\ pc = "file" /\ fileNo = 2
  /\ Has(file, "to") /\ NotJava(file)
  /\ \E c \in 1..Len(file.chunks) : file.chunks[c].changes[1].type = "add"
  /\ OfFile(1) # {} /\ OfFile(2) = {}

\* (C10) Matching terminates: every pass of the find-next-match loop that finds a
\* match leaves the regex further on in the content, so that no pass repeats an
\* earlier one and the loop ends after finitely many passes.
MatchingTerminates ==
  [][pc = "exec" /\ pc' = "exec" => regex'.lastIndex > regex.lastIndex]_vars

\* (C11) Review decision in bot.js: a review is created at most once and only
\* with at least one comment; its event is REQUEST_CHANGES exactly when
\* hasCritical holds and the PR author is not the authenticated user, and COMMENT
\* otherwise; the commit status of a run with a critical violation is 'failure'
\* whatever the event.
ReviewDecision ==
  /\ review.calls <= 1
  /\ review.calls = 1 => Len(comments) > 0
  /\ pc \in {"status", "end"} /\ Len(comments) > 0 /\ failure \in {"none", "check"}
       => review.calls = 1
  /\ variant = "bot" /\ review.calls = 1 =>
       /\ review.value \in {"REQUEST_CHANGES", "COMMENT"}
       /\ review.value = "REQUEST_CHANGES" <=> (hasCritical /\ ~ review.selfAuthored)
       /\ status.calls = 1 /\ hasCritical => status.value = "failure"

\* a critical violation on the bot account's own PR: a COMMENT review, and the
\* commit status is 'failure'
OwnPullRequestCommented ==
  /\ variant = "bot" /\ pc = "end"
  /\ hasCritical /\ review.calls = 1 /\ review.selfAuthored
  /\ review.value = "COMMENT"
  /\ status.calls = 1 /\ status.value = "failure"

====
